---- MODULE Spec2Model ----
(***************************************************************************)
(* Model of the Mastodon repost / like / follow-back bot                   *)
(* (src/mastodon_bot.py): the three persistent id sets and their JSON      *)
(* files, the filter predicates, the three phases of a poll cycle at the   *)
(* granularity of one remote call per step, and the scheduler loop.        *)
(***************************************************************************)
EXTENDS Integers, Sequences, FiniteSets, TLC

(***************************************************************************)
(* Bounds of the model.                                                    *)
(***************************************************************************)
MaxListing == 2
MaxCycles == 2
MaxCrashes == 1
MaxTags == 1
MaxRuleTags == 2
MaxRequests == 3

(***************************************************************************)
(* Universes.                                                              *)
(***************************************************************************)
None == "None"

StatusIds == {"s1", "s2", "s3"}
FollowerIds == {"f1", "f2"}

\* Tag names are sequences of characters, so that lower-casing and
\* substring / superstring relations between tags are visible to the model.
TagNames == {<<"R">>, <<"r">>, <<"r", "s">>}

SeqsUpTo(S, n) == UNION {[1..k -> S] : k \in 0..n}

Range(s) == {s[i] : i \in 1..Len(s)}

Perms(S) == {s \in [1..Cardinality(S) -> S] : Range(s) = S}

(***************************************************************************)
(* Python truthiness of the values the filters test.                       *)
(***************************************************************************)
TruthyOpt(v) == v # None
TruthySeq(s) == Len(s) > 0

(***************************************************************************)
(* str.lower() on tag names.                                               *)
(***************************************************************************)
LowerChar(c) ==
    CASE c = "R" -> "r"
      [] c = "S" -> "s"
      [] OTHER -> c

Lower(name) == [i \in 1..Len(name) |-> LowerChar(name[i])]

(***************************************************************************)
(* Filter engine.                                                          *)
(***************************************************************************)
should_repost_boost_inverted(flags, status) ==
    IF flags.exclude_replies /\ TruthyOpt(status.in_reply_to_id) THEN FALSE
    ELSE IF flags.exclude_reblogs /\ TruthyOpt(status.reblog) THEN FALSE
    ELSE IF flags.boost_only /\ TruthySeq(status.media_attachments) THEN FALSE
    ELSE TRUE

should_repost_skips_reply_test(flags, status) ==
    IF flags.exclude_reblogs /\ TruthyOpt(status.reblog) THEN FALSE
    ELSE IF flags.boost_only /\ ~TruthySeq(status.media_attachments) THEN FALSE
    ELSE TRUE

should_repost(flags, status) ==
    IF flags.exclude_replies /\ TruthyOpt(status.in_reply_to_id) THEN FALSE
    ELSE IF flags.exclude_reblogs /\ TruthyOpt(status.reblog) THEN FALSE
    ELSE IF flags.boost_only /\ ~TruthySeq(status.media_attachments) THEN FALSE
    ELSE TRUE

extract_hashtags_no_lower(status) ==
    {status.tags[i].name : i \in 1..Len(status.tags)}

extract_hashtags(status) ==
    {Lower(status.tags[i].name) : i \in 1..Len(status.tags)}

should_like_filters_first(status, like_config) ==
    IF like_config.exclude_replies /\ TruthyOpt(status.in_reply_to_id) THEN FALSE
    ELSE IF like_config.like_everything THEN TRUE
    ELSE IF like_config.require_media /\ ~TruthySeq(status.media_attachments) THEN FALSE
    ELSE IF TruthySeq(like_config.hashtags)
            /\ ~(\E i \in 1..Len(like_config.hashtags) :
                    Lower(like_config.hashtags[i]) \in extract_hashtags(status))
         THEN FALSE
    ELSE TRUE

should_like(status, like_config) ==
    IF like_config.like_everything THEN TRUE
    ELSE IF like_config.exclude_replies /\ TruthyOpt(status.in_reply_to_id) THEN FALSE
    ELSE IF like_config.require_media /\ ~TruthySeq(status.media_attachments) THEN FALSE
    ELSE IF TruthySeq(like_config.hashtags)
            /\ ~(\E i \in 1..Len(like_config.hashtags) :
                    Lower(like_config.hashtags[i]) \in extract_hashtags(status))
         THEN FALSE
    ELSE TRUE

(***************************************************************************)
(* Dedup files.  A file is missing, holds text json.load rejects (empty,   *)
(* truncated, garbage), holds valid JSON that is not an object, or holds   *)
(* an object with at most one key whose value is an array of strings, a    *)
(* string, null or a number.                                               *)
(***************************************************************************)
Missing == [kind |-> "missing", key |-> "", vt |-> "", items |-> <<>>]
Invalid == [kind |-> "invalid", key |-> "", vt |-> "", items |-> <<>>]
NonObject == [kind |-> "nonobject", key |-> "", vt |-> "", items |-> <<>>]
Obj(k, t, its) == [kind |-> "object", key |-> k, vt |-> t, items |-> its]

Domains == {"processed", "liked", "followed"}

LoadKey(dom) == IF dom = "followed" THEN "accounts" ELSE "posts"

SaveKeyPosts(dom) == "posts"

SaveKey(dom) == IF dom = "followed" THEN "accounts" ELSE "posts"

\* _load_*: the file is read only if it exists; JSONDecodeError is the one
\* exception caught; data.get on a non-object and set() of a non-iterable
\* propagate.
LoadFile(file, key, current) ==
    CASE file.kind = "missing" -> [exc |-> "none", set |-> current]
      [] file.kind = "invalid" -> [exc |-> "none", set |-> {}]
      [] file.kind = "nonobject" -> [exc |-> "AttributeError", set |-> current]
      [] OTHER ->
           IF file.key # key THEN [exc |-> "none", set |-> {}]
           ELSE IF file.vt \in {"array", "string"}
                THEN [exc |-> "none", set |-> Range(file.items)]
                ELSE [exc |-> "TypeError", set |-> current]

\* open(file, 'w') truncates the file before anything is written.
TruncateFile == Invalid

DumpFilesEmpty(key, set) == {Obj(key, "array", <<>>)}

\* json.dump({key: list(set)}): the order of list(set) is unspecified.
DumpFiles(key, set) == {Obj(key, "array", order) : order \in Perms(set)}

(***************************************************************************)
(* The remote world of the bot model: three statuses of different shapes,  *)
(* listed in any order and with repetitions, and two followers.            *)
(***************************************************************************)
Status(id, reply, rb, media, tags) ==
    [id |-> id, in_reply_to_id |-> reply, reblog |-> rb,
     media_attachments |-> media, tags |-> tags]

Catalog ==
    {Status("s1", None, None, <<"m">>, <<[name |-> <<"r">>]>>),
     Status("s2", "p", None, <<>>, <<>>),
     Status("s3", None, "rb", <<>>, <<[name |-> <<"R">>]>>)}

Listings == SeqsUpTo(Catalog, MaxListing)
FollowerListings == SeqsUpTo(FollowerIds, MaxListing)

Flags(b, r, x) == [boost_only |-> b, exclude_replies |-> r, exclude_reblogs |-> x]

Rule(acct, all, r, m, tags) ==
    [account |-> acct, like_everything |-> all, exclude_replies |-> r,
     require_media |-> m, hashtags |-> tags]

Config(accts, flags, likes, quota, fb) ==
    [accounts_to_monitor |-> accts, flags |-> flags, like_accounts |-> likes,
     max_likes_per_check |-> quota, enable_follow_back |-> fb]

Configs ==
    {Config(<<"a@x", "b@y">>, Flags(FALSE, TRUE, FALSE),
            <<Rule("a@x", FALSE, FALSE, FALSE, <<<<"R">>>>),
              Rule("b@y", TRUE, FALSE, FALSE, <<>>)>>, 2, TRUE),
     Config(<<"a@x">>, Flags(FALSE, FALSE, FALSE), <<>>, 2, FALSE),
     Config(<<"a@x">>, Flags(TRUE, FALSE, TRUE),
            <<Rule("a@x", FALSE, FALSE, FALSE, <<>>),
              Rule("b@y", FALSE, TRUE, TRUE, <<>>)>>, 1, TRUE),
     Config(<<"b@y">>, Flags(FALSE, FALSE, FALSE),
            <<Rule("b@y", TRUE, FALSE, FALSE, <<>>)>>, 0, FALSE)}

\* Dedup files found on disk when the bot is first started.
Disk(p, l, f) == [processed |-> p, liked |-> l, followed |-> f]

StartDisks ==
    {Disk(Missing, Missing, Missing),
     Disk(Obj("posts", "array", <<"s1">>), Invalid,
          Obj("accounts", "array", <<"f1">>)),
     Disk(Invalid, Obj("posts", "array", <<"s3">>), Missing),
     Disk(Missing, NonObject, Missing)}

(***************************************************************************)
(* State.                                                                  *)
(***************************************************************************)
VARIABLES
    pc,                 \* position of the bot process
    config,             \* self.config as read by __init__
    cycle,              \* number of poll cycles started so far
    crashes,            \* number of crashes so far
    processed_posts,    \* self.processed_posts
    liked_posts,        \* self.liked_posts
    followed_accounts,  \* self.followed_accounts
    disk,               \* the three dedup files
    ai,                 \* index of the account a phase is working on
    statuses,           \* rest of the listing being iterated
    followers,          \* rest of the follower listing being iterated
    liked_count,        \* liked_count of check_likes
    saving,             \* domain of the save in progress
    last,               \* the remote call issued last and its outcome
    done,               \* history: successful remote actions per id
    persisted,          \* history: ids written by a completed save
    cycleLikes,         \* history: successful favourite calls of this cycle
    qual,               \* history: new qualifying ids listed in this like phase
    likeFail,           \* history: a remote call failed in this like phase
    f_status, f_rule, f_flags, f_out,   \* filter functions applied to inputs
    d_dom, d_file, d_set, d_in, d_pc,   \* one dedup file, loaded and saved
    loaded,             \* history: the sets the last start loaded
    store,              \* the configuration file (config.yaml)
    env,                \* environment of the bot process
    client,             \* self.mastodon as built by _init_mastodon
    w_last,             \* the web request served last and its outcome
    w_budget,           \* number of web requests still to be served
    race,               \* web requests in progress side by side, and the
                        \* history of the tokens the instance accepted
    remote,             \* what the Mastodon instance holds, once it is settled
    flog                \* history: the follower listing as returned and the
                        \* follow calls of this cycle, in the order issued

memVars == <<processed_posts, liked_posts, followed_accounts>>
loopVars == <<ai, statuses, followers, liked_count, saving>>
likeGhost == <<cycleLikes, qual, likeFail>>
fnVars == <<f_status, f_rule, f_flags, f_out>>
fileVars == <<d_dom, d_file, d_set, d_in, d_pc>>
webVars == <<store, w_last, w_budget, race>>
bootVars == <<env, client>>
deployVars == <<webVars, bootVars, remote>>
vars == <<pc, config, cycle, crashes, memVars, disk, loopVars, last, done,
          persisted, likeGhost, fnVars, fileVars, loaded, deployVars, flog>>

(***************************************************************************)
(* The configuration file as the web UI and the bot read it: the mastodon  *)
(* section, the two watch-lists, and the keys the web UI carries through   *)
(* untouched (bot.*, like_settings).  An absent key reads as "", FALSE or  *)
(* the empty list, as the .get calls of the code make it.  exists tells    *)
(* whether the file at CONFIG_PATH is there; while it is not, the other    *)
(* fields are those of the default configuration file (has_default) or     *)
(* empty.                                                                  *)
(***************************************************************************)
BotSettings(present, flags, quota, fb) ==
    [present |-> present, flags |-> flags, max_likes_per_check |-> quota,
     follow_back |-> fb]

NoSettings == BotSettings(FALSE, Flags(FALSE, FALSE, FALSE), 0, FALSE)

\* a token as stored in access_token_encrypted; NoCipher is the absent key
Cipher(token) == [alg |-> "fernet", plain |-> token]
NoCipher == [alg |-> "none", plain |-> ""]

Store(url, valid, enc, plain, accts, likes, bot) ==
    [exists |-> TRUE, has_default |-> FALSE,
     instance_url |-> url, token_valid |-> valid,
     access_token_encrypted |-> enc, access_token |-> plain,
     accounts_to_monitor |-> accts, likes |-> likes, bot |-> bot]

\* no file at CONFIG_PATH yet, the default configuration file holds dflt
DefaultOnly(dflt) == [dflt EXCEPT !.exists = FALSE, !.has_default = TRUE]

\* neither file
NoStore ==
    [Store("", FALSE, NoCipher, "", <<>>, <<>>, NoSettings)
        EXCEPT !.exists = FALSE]

Form(url, token, hasBoost, boost, hasLike, like) ==
    [instance_url |-> url, access_token |-> token,
     has_boost |-> hasBoost, boost_accounts |-> boost,
     has_like |-> hasLike, like_accounts |-> like]

NoForm == Form("", "", FALSE, <<>>, FALSE, <<>>)

\* a request as served: its route and form, the stored instance URL a
\* verify_credentials request went to ("" when none was sent), the answer
\* to it, and whether the handler reported success
Served(route, form, checked, answer, ok) ==
    [route |-> route, form |-> form, checked |-> checked, answer |-> answer,
     ok |-> ok]

NoRequest == Served("none", NoForm, "", "none", FALSE)

\* key: TOKEN_ENC_KEY holds a usable Fernet key
Env(token, url, key) ==
    [MASTODON_ACCESS_TOKEN |-> token, MASTODON_INSTANCE_URL |-> url,
     TOKEN_ENC_KEY |-> key]

Client(token, url) == [access_token |-> token, api_base_url |-> url]
NoClient == Client("", "")

\* the listing the instance returns for each account, and whether its
\* calls now all succeed
Handles == {"a@x", "b@y"}
Remote(listing, steady) == [listing |-> listing, steady |-> steady]
NoRemote == Remote([h \in Handles |-> <<>>], FALSE)

MaxRacing == 2

\* no request in progress.  threads: for each request in progress the files
\* it has still to write, in order, and whether it has opened config.yaml
\* for writing; vouched: the pairs <<instance URL, token>> for which
\* verify_credentials answered 200
NoRace ==
    [threads |-> [t \in 1..MaxRacing |-> [writes |-> <<>>, opened |-> FALSE]],
     vouched |-> {}]

DeployIdle ==
    /\ remote = NoRemote
    /\ store = NoStore
    /\ env = Env("", "", FALSE)
    /\ client = NoClient
    /\ w_last = NoRequest
    /\ w_budget = 0
    /\ race = NoRace

\* lines 56-68: the settings __init__ takes from self.config
ConfigFromStore(st) ==
    Config(st.accounts_to_monitor, st.bot.flags, st.likes,
           st.bot.max_likes_per_check, st.bot.follow_back)

NoCall == [op |-> "none", arg |-> "", res |-> "", dup |-> FALSE]
Called(op, arg, res, dup) == [op |-> op, arg |-> arg, res |-> res, dup |-> dup]

NoStatus == Status("", None, None, <<>>, <<>>)
NoRule == Rule("", FALSE, FALSE, FALSE, <<>>)

FnIdle ==
    /\ f_status = NoStatus
    /\ f_rule = NoRule
    /\ f_flags = Flags(FALSE, FALSE, FALSE)
    /\ f_out = [fn |-> "none", bool |-> FALSE, set |-> {}]

FileIdle ==
    /\ d_dom = "processed"
    /\ d_file = Missing
    /\ d_set = {}
    /\ d_in = {}
    /\ d_pc = "idle"

AddIdReplaces(set, id) == {id}

\* set.add(id) of _repost_status, _like_status and check_follow_back
AddId(set, id) == set \cup {id}

MemSet(dom) ==
    CASE dom = "processed" -> processed_posts
      [] dom = "liked" -> liked_posts
      [] OTHER -> followed_accounts

\* the follower listing as account_followers returned it and the
\* account_follow calls issued since, each with its outcome; both empty
\* while no listing was fetched in this cycle
FollowLog(listing, calls) == [listing |-> listing, calls |-> calls]

BotBlank ==
    /\ flog = FollowLog(<<>>, <<>>)
    /\ config = Config(<<>>, Flags(FALSE, FALSE, FALSE), <<>>, 0, FALSE)
    /\ cycle = 0
    /\ crashes = 0
    /\ processed_posts = {}
    /\ liked_posts = {}
    /\ followed_accounts = {}
    /\ disk = Disk(Missing, Missing, Missing)
    /\ ai = 1
    /\ statuses = <<>>
    /\ followers = <<>>
    /\ liked_count = 0
    /\ saving = "none"
    /\ last = NoCall
    /\ done = [reblog |-> [i \in StatusIds |-> 0],
               favourite |-> [i \in StatusIds |-> 0],
               follow |-> [i \in FollowerIds |-> 0]]
    /\ persisted = [d \in Domains |-> {}]
    /\ cycleLikes = 0
    /\ qual = {}
    /\ likeFail = FALSE
    /\ loaded = [d \in Domains |-> {}]

BotOff == pc = "off" /\ BotBlank

BotIdle == BotOff /\ DeployIdle

InitBot(configs, disks) ==
    /\ pc = "init"
    /\ flog = FollowLog(<<>>, <<>>)
    /\ config \in configs
    /\ cycle = 0
    /\ crashes = 0
    /\ processed_posts = {}
    /\ liked_posts = {}
    /\ followed_accounts = {}
    /\ disk \in disks
    /\ ai = 1
    /\ statuses = <<>>
    /\ followers = <<>>
    /\ liked_count = 0
    /\ saving = "none"
    /\ last = NoCall
    /\ done = [reblog |-> [i \in StatusIds |-> 0],
               favourite |-> [i \in StatusIds |-> 0],
               follow |-> [i \in FollowerIds |-> 0]]
    /\ persisted = [d \in Domains |-> {}]
    /\ cycleLikes = 0
    /\ qual = {}
    /\ likeFail = FALSE
    /\ loaded = [d \in Domains |-> {}]
    /\ FnIdle
    /\ FileIdle

InitWith(configs, disks) == InitBot(configs, disks) /\ DeployIdle

Init == InitWith(Configs, StartDisks)

(***************************************************************************)
(* __init__: the three dedup files are loaded; an exception that escapes   *)
(* a load aborts the start.                                                *)
(***************************************************************************)
Startup ==
    /\ pc = "init"
    /\ cycle < MaxCycles
    /\ LET p == LoadFile(disk.processed, LoadKey("processed"), {})
           l == LoadFile(disk.liked, LoadKey("liked"), {})
           f == LoadFile(disk.followed, LoadKey("followed"), {})
       IN IF p.exc # "none" \/ l.exc # "none" \/ f.exc # "none"
          THEN /\ pc' = "aborted"
               /\ UNCHANGED <<memVars, cycle, loaded>>
          ELSE /\ pc' = "repost_account"
               /\ processed_posts' = p.set
               /\ liked_posts' = l.set
               /\ followed_accounts' = f.set
               /\ loaded' = [processed |-> p.set, liked |-> l.set,
                             followed |-> f.set]
               /\ cycle' = cycle + 1
    /\ UNCHANGED <<config, crashes, disk, loopVars, last, done, persisted,
                   likeGhost, fnVars, fileVars, deployVars, flog>>

\* An exception that is not a MastodonAPIError leaves the phase and run().
Fatal(op, arg) ==
    /\ pc' = "fatal"
    /\ last' = Called(op, arg, "transport_error", FALSE)

(***************************************************************************)
(* Outcomes of a remote call: it returns, raises MastodonAPIError, or      *)
(* raises a transport error, which is not a MastodonAPIError.              *)
(***************************************************************************)
SearchResults == {"ok", "empty", "api_error", "transport_error"}
CallResults == {"ok", "api_error", "transport_error"}

(***************************************************************************)
(* _save_*: open(file, 'w'), then json.dump of the whole set.              *)
(***************************************************************************)
AfterSave(dom) ==
    CASE dom = "processed" -> "repost_status"
      [] dom = "liked" -> "like_status"
      [] OTHER -> "follow_next"

SaveOpen ==
    /\ pc = "save_open"
    /\ disk' = [disk EXCEPT ![saving] = TruncateFile]
    /\ pc' = "save_write"
    /\ UNCHANGED <<config, cycle, crashes, memVars, loopVars, last, done,
                   persisted, likeGhost, fnVars, fileVars,
                   loaded, deployVars, flog>>

\* The save returns into _repost_status / _like_status / check_follow_back;
\* check_likes counts the like once _like_status has returned True.
SaveWrite ==
    /\ pc = "save_write"
    /\ \E file \in DumpFiles(SaveKey(saving), MemSet(saving)) :
          disk' = [disk EXCEPT ![saving] = file]
    /\ persisted' = [persisted EXCEPT ![saving] = @ \cup MemSet(saving)]
    /\ liked_count' = IF saving = "liked" THEN liked_count + 1 ELSE liked_count
    /\ pc' = AfterSave(saving)
    /\ saving' = "none"
    /\ UNCHANGED <<config, cycle, crashes, memVars, ai, statuses, followers,
                   last, done, likeGhost, fnVars, fileVars,
                   loaded, deployVars, flog>>

(***************************************************************************)
(* check_new_posts                                                         *)
(***************************************************************************)
\* _get_account_id for the next monitored handle
RepostResolve ==
    /\ pc = "repost_account"
    /\ ai <= Len(config.accounts_to_monitor)
    /\ \E res \in SearchResults :
         LET handle == config.accounts_to_monitor[ai] IN
         IF res = "transport_error"
         THEN Fatal("account_search", handle) /\ UNCHANGED ai
         ELSE /\ last' = Called("account_search", handle, res, FALSE)
              /\ IF res = "ok"
                 THEN pc' = "repost_fetch" /\ UNCHANGED ai
                 ELSE pc' = "repost_account" /\ ai' = ai + 1
    /\ UNCHANGED <<config, cycle, crashes, memVars, disk, statuses, followers,
                   liked_count, saving, done, persisted, likeGhost, fnVars,
                   fileVars,
                   loaded, deployVars, flog>>

\* account_statuses for the resolved account
RepostFetch ==
    /\ pc = "repost_fetch"
    /\ LET handle == config.accounts_to_monitor[ai] IN
       \/ /\ Fatal("account_statuses", handle)
          /\ UNCHANGED <<ai, statuses>>
       \/ /\ last' = Called("account_statuses", handle, "api_error", FALSE)
          /\ pc' = "repost_account"
          /\ ai' = ai + 1
          /\ UNCHANGED statuses
       \/ \E listing \in Listings :
            /\ last' = Called("account_statuses", handle, "ok", FALSE)
            /\ statuses' = listing
            /\ pc' = "repost_status"
            /\ UNCHANGED ai
    /\ UNCHANGED <<config, cycle, crashes, memVars, disk, followers,
                   liked_count, saving, done, persisted, likeGhost, fnVars,
                   fileVars,
                   loaded, deployVars, flog>>

RepostSeenAnySet(status_id) == status_id \in processed_posts \cup liked_posts

RepostSeenNever(status_id) == FALSE

\* the dedup test of _repost_status
RepostSeen(status_id) == status_id \in processed_posts

\* _repost_status on the next status of the listing
RepostStatus ==
    /\ pc = "repost_status"
    /\ statuses # <<>>
    /\ LET status == Head(statuses)
           status_id == status.id
       IN IF RepostSeen(status_id) \/ ~should_repost(config.flags, status)
          THEN /\ statuses' = Tail(statuses)
               /\ UNCHANGED <<pc, processed_posts, saving, last, done>>
          ELSE \E res \in CallResults :
                 LET dup == status_id \in processed_posts IN
                 CASE res = "transport_error" ->
                        /\ Fatal("status_reblog", status_id)
                        /\ UNCHANGED <<statuses, processed_posts, saving, done>>
                   [] res = "api_error" ->
                        /\ last' = Called("status_reblog", status_id, res, dup)
                        /\ statuses' = Tail(statuses)
                        /\ UNCHANGED <<pc, processed_posts, saving, done>>
                   [] OTHER ->
                        /\ last' = Called("status_reblog", status_id, res, dup)
                        /\ done' = [done EXCEPT !.reblog[status_id] = @ + 1]
                        /\ processed_posts' = AddId(processed_posts, status_id)
                        /\ statuses' = Tail(statuses)
                        /\ saving' = "processed"
                        /\ pc' = "save_open"
    /\ UNCHANGED <<config, cycle, crashes, liked_posts, followed_accounts,
                   disk, ai, followers, liked_count, persisted, likeGhost,
                   fnVars, fileVars,
                   loaded, deployVars, flog>>

\* the listing of one account is exhausted: next monitored account
RepostListingEnd ==
    /\ pc = "repost_status"
    /\ statuses = <<>>
    /\ pc' = "repost_account"
    /\ ai' = ai + 1
    /\ UNCHANGED <<config, cycle, crashes, memVars, disk, statuses, followers,
                   liked_count, saving, last, done, persisted, likeGhost,
                   fnVars, fileVars,
                   loaded, deployVars, flog>>

RepostPhaseEndSkipsLikes ==
    /\ pc = "repost_account"
    /\ ai > Len(config.accounts_to_monitor)
    /\ pc' = "follow_start"
    /\ ai' = 1
    /\ UNCHANGED <<config, cycle, crashes, memVars, disk, statuses, followers,
                   liked_count, saving, last, done, persisted, likeGhost,
                   fnVars, fileVars, loaded, deployVars, flog>>

\* check_new_posts returns; run() calls check_likes
RepostPhaseEnd ==
    /\ pc = "repost_account"
    /\ ai > Len(config.accounts_to_monitor)
    /\ pc' = "like_start"
    /\ ai' = 1
    /\ UNCHANGED <<config, cycle, crashes, memVars, disk, statuses, followers,
                   liked_count, saving, last, done, persisted, likeGhost,
                   fnVars, fileVars,
                   loaded, deployVars, flog>>

(***************************************************************************)
(* check_likes                                                             *)
(***************************************************************************)
\* ids of a listing that the rule accepts and that are not liked yet
Qualifying(listing, like_config) ==
    {listing[i].id : i \in {j \in 1..Len(listing) :
        /\ should_like(listing[j], like_config)
        /\ listing[j].id \notin liked_posts}}

\* the early return on an empty rule list, else the counter starts at 0
LikeStart ==
    /\ pc = "like_start"
    /\ IF config.like_accounts = <<>>
       THEN pc' = "follow_start"
       ELSE pc' = "like_account"
    /\ liked_count' = 0
    /\ ai' = 1
    /\ cycleLikes' = 0
    /\ qual' = {}
    /\ likeFail' = FALSE
    /\ UNCHANGED <<config, cycle, crashes, memVars, disk, statuses, followers,
                   saving, last, done, persisted, fnVars, fileVars,
                   loaded, deployVars, flog>>

QuotaReachedOffByOne(count) == count > config.max_likes_per_check

\* the quota test at the account boundary and at every status
QuotaReached(count) == count >= config.max_likes_per_check

\* _get_account_id for the next like rule, then the quota test
LikeResolve ==
    /\ pc = "like_account"
    /\ ai <= Len(config.like_accounts)
    /\ \E res \in SearchResults :
         LET handle == config.like_accounts[ai].account IN
         IF res = "transport_error"
         THEN Fatal("account_search", handle) /\ UNCHANGED <<ai, liked_count, likeFail>>
         ELSE /\ last' = Called("account_search", handle, res, FALSE)
              /\ IF res # "ok"
                 THEN /\ pc' = "like_account"
                      /\ ai' = ai + 1
                      /\ likeFail' = TRUE
                      /\ UNCHANGED liked_count
                 ELSE IF QuotaReached(liked_count)
                 THEN /\ pc' = "follow_start"
                      /\ ai' = 1
                      /\ liked_count' = 0
                      /\ UNCHANGED likeFail
                 ELSE /\ pc' = "like_fetch"
                      /\ UNCHANGED <<ai, liked_count, likeFail>>
    /\ UNCHANGED <<config, cycle, crashes, memVars, disk, statuses, followers,
                   saving, done, persisted, cycleLikes, qual, fnVars, fileVars,
                   loaded, deployVars, flog>>

\* account_statuses for the resolved like account
LikeFetch ==
    /\ pc = "like_fetch"
    /\ LET like_config == config.like_accounts[ai]
           handle == like_config.account
       IN
       \/ /\ Fatal("account_statuses", handle)
          /\ UNCHANGED <<ai, statuses, qual, likeFail>>
       \/ /\ last' = Called("account_statuses", handle, "api_error", FALSE)
          /\ pc' = "like_account"
          /\ ai' = ai + 1
          /\ likeFail' = TRUE
          /\ UNCHANGED <<statuses, qual>>
       \/ \E listing \in Listings :
            /\ last' = Called("account_statuses", handle, "ok", FALSE)
            /\ statuses' = listing
            /\ qual' = qual \cup Qualifying(listing, like_config)
            /\ pc' = "like_status"
            /\ UNCHANGED <<ai, likeFail>>
    /\ UNCHANGED <<config, cycle, crashes, memVars, disk, followers,
                   liked_count, saving, done, persisted, cycleLikes, fnVars,
                   fileVars,
                   loaded, deployVars, flog>>

\* the dedup test of _like_status
LikeSeen(status_id) == status_id \in liked_posts

LikeStatusCountsSeen ==
    /\ pc = "like_status"
    /\ statuses # <<>>
    /\ LET status == Head(statuses)
           status_id == status.id
           like_config == config.like_accounts[ai]
       IN IF QuotaReached(liked_count)
          THEN /\ statuses' = <<>>
               /\ pc' = "like_account"
               /\ ai' = ai + 1
               /\ liked_count' = liked_count
               /\ UNCHANGED <<liked_posts, saving, last, done, cycleLikes, likeFail>>
          ELSE IF ~should_like(status, like_config)
          THEN /\ statuses' = Tail(statuses)
               /\ liked_count' = liked_count
               /\ UNCHANGED <<pc, ai, liked_posts, saving, last, done,
                              cycleLikes, likeFail>>
          ELSE IF LikeSeen(status_id)
          THEN /\ statuses' = Tail(statuses)
               /\ liked_count' = liked_count + 1
               /\ UNCHANGED <<pc, ai, liked_posts, saving, last, done,
                              cycleLikes, likeFail>>
          ELSE \E res \in CallResults :
                 LET dup == status_id \in liked_posts IN
                 CASE res = "transport_error" ->
                        /\ Fatal("status_favourite", status_id)
                        /\ liked_count' = liked_count
                        /\ UNCHANGED <<ai, statuses, liked_posts, saving, done,
                                       cycleLikes, likeFail>>
                   [] res = "api_error" ->
                        /\ last' = Called("status_favourite", status_id, res, dup)
                        /\ statuses' = Tail(statuses)
                        /\ likeFail' = TRUE
                        /\ liked_count' = liked_count
                        /\ UNCHANGED <<pc, ai, liked_posts, saving, done, cycleLikes>>
                   [] OTHER ->
                        /\ last' = Called("status_favourite", status_id, res, dup)
                        /\ done' = [done EXCEPT !.favourite[status_id] = @ + 1]
                        /\ cycleLikes' = cycleLikes + 1
                        /\ liked_posts' = AddId(liked_posts, status_id)
                        /\ statuses' = Tail(statuses)
                        /\ saving' = "liked"
                        /\ pc' = "save_open"
                        /\ liked_count' = liked_count
                        /\ UNCHANGED <<ai, likeFail>>
    /\ UNCHANGED <<config, cycle, crashes, processed_posts, followed_accounts,
                   disk, followers, persisted, qual, fnVars,
                   fileVars,
                   loaded, deployVars, flog>>

\* one iteration of the status loop: quota test, _should_like, _like_status
LikeStatus ==
    /\ pc = "like_status"
    /\ statuses # <<>>
    /\ LET status == Head(statuses)
           status_id == status.id
           like_config == config.like_accounts[ai]
       IN IF QuotaReached(liked_count)
          THEN /\ statuses' = <<>>
               /\ pc' = "like_account"
               /\ ai' = ai + 1
               /\ UNCHANGED <<liked_posts, saving, last, done, cycleLikes, likeFail>>
          ELSE IF ~should_like(status, like_config) \/ LikeSeen(status_id)
          THEN /\ statuses' = Tail(statuses)
               /\ UNCHANGED <<pc, ai, liked_posts, saving, last, done,
                              cycleLikes, likeFail>>
          ELSE \E res \in CallResults :
                 LET dup == status_id \in liked_posts IN
                 CASE res = "transport_error" ->
                        /\ Fatal("status_favourite", status_id)
                        /\ UNCHANGED <<ai, statuses, liked_posts, saving, done,
                                       cycleLikes, likeFail>>
                   [] res = "api_error" ->
                        /\ last' = Called("status_favourite", status_id, res, dup)
                        /\ statuses' = Tail(statuses)
                        /\ likeFail' = TRUE
                        /\ UNCHANGED <<pc, ai, liked_posts, saving, done, cycleLikes>>
                   [] OTHER ->
                        /\ last' = Called("status_favourite", status_id, res, dup)
                        /\ done' = [done EXCEPT !.favourite[status_id] = @ + 1]
                        /\ cycleLikes' = cycleLikes + 1
                        /\ liked_posts' = AddId(liked_posts, status_id)
                        /\ statuses' = Tail(statuses)
                        /\ saving' = "liked"
                        /\ pc' = "save_open"
                        /\ UNCHANGED <<ai, likeFail>>
    /\ UNCHANGED <<config, cycle, crashes, processed_posts, followed_accounts,
                   disk, followers, liked_count, persisted, qual, fnVars,
                   fileVars,
                   loaded, deployVars, flog>>

\* the listing of one like account is exhausted: next rule
LikeListingEnd ==
    /\ pc = "like_status"
    /\ statuses = <<>>
    /\ pc' = "like_account"
    /\ ai' = ai + 1
    /\ UNCHANGED <<config, cycle, crashes, memVars, disk, statuses, followers,
                   liked_count, saving, last, done, persisted, likeGhost,
                   fnVars, fileVars,
                   loaded, deployVars, flog>>

\* check_likes returns; run() calls check_follow_back
LikePhaseEnd ==
    /\ pc = "like_account"
    /\ ai > Len(config.like_accounts)
    /\ pc' = "follow_start"
    /\ ai' = 1
    /\ liked_count' = 0
    /\ UNCHANGED <<config, cycle, crashes, memVars, disk, statuses, followers,
                   saving, last, done, persisted, likeGhost, fnVars, fileVars,
                   loaded, deployVars, flog>>

(***************************************************************************)
(* check_follow_back                                                       *)
(***************************************************************************)
FollowStartAlways ==
    /\ pc = "follow_start"
    /\ pc' = "follow_me"
    /\ cycleLikes' = 0
    /\ qual' = {}
    /\ likeFail' = FALSE
    /\ UNCHANGED <<config, cycle, crashes, memVars, disk, loopVars, last, done,
                   persisted, fnVars, fileVars, loaded, deployVars, flog>>

\* the early return when follow_back is off
FollowStart ==
    /\ pc = "follow_start"
    /\ IF config.enable_follow_back
       THEN pc' = "follow_me"
       ELSE pc' = "sleep"
    /\ cycleLikes' = 0
    /\ qual' = {}
    /\ likeFail' = FALSE
    /\ UNCHANGED <<config, cycle, crashes, memVars, disk, loopVars, last, done,
                   persisted, fnVars, fileVars,
                   loaded, deployVars, flog>>

\* self.mastodon.me()
FollowMe ==
    /\ pc = "follow_me"
    /\ \E res \in CallResults :
         IF res = "transport_error"
         THEN Fatal("me", "")
         ELSE /\ last' = Called("me", "", res, FALSE)
              /\ pc' = IF res = "ok" THEN "follow_fetch" ELSE "sleep"
    /\ UNCHANGED <<config, cycle, crashes, memVars, disk, loopVars, done,
                   persisted, likeGhost, fnVars, fileVars,
                   loaded, deployVars, flog>>

\* account_followers, and the early return on an empty listing
FollowFetch ==
    /\ pc = "follow_fetch"
    /\ \/ /\ Fatal("account_followers", "")
          /\ UNCHANGED <<followers, flog>>
       \/ /\ last' = Called("account_followers", "", "api_error", FALSE)
          /\ pc' = "sleep"
          /\ UNCHANGED <<followers, flog>>
       \/ \E listing \in FollowerListings :
            /\ last' = Called("account_followers", "", "ok", FALSE)
            /\ followers' = listing
            /\ flog' = FollowLog(listing, <<>>)
            /\ pc' = IF listing = <<>> THEN "sleep" ELSE "follow_next"
    /\ UNCHANGED <<config, cycle, crashes, memVars, disk, ai, statuses,
                   liked_count, saving, done, persisted, likeGhost, fnVars,
                   fileVars,
                   loaded, deployVars>>

\* the dedup test of check_follow_back
FollowSeen(account_id) == account_id \in followed_accounts

\* one iteration of the follower loop
FollowNext ==
    /\ pc = "follow_next"
    /\ followers # <<>>
    /\ LET account_id == Head(followers)
       IN IF FollowSeen(account_id)
          THEN /\ followers' = Tail(followers)
               /\ UNCHANGED <<pc, followed_accounts, saving, last, done, flog>>
          ELSE \E res \in CallResults :
                 LET dup == account_id \in followed_accounts IN
                 /\ flog' = [flog EXCEPT !.calls =
                                Append(@, [id |-> account_id, res |-> res])]
                 /\ CASE res = "transport_error" ->
                           /\ Fatal("account_follow", account_id)
                           /\ UNCHANGED <<followers, followed_accounts, saving, done>>
                      [] res = "api_error" ->
                           /\ last' = Called("account_follow", account_id, res, dup)
                           /\ followers' = Tail(followers)
                           /\ UNCHANGED <<pc, followed_accounts, saving, done>>
                      [] OTHER ->
                           /\ last' = Called("account_follow", account_id, res, dup)
                           /\ done' = [done EXCEPT !.follow[account_id] = @ + 1]
                           /\ followed_accounts' = AddId(followed_accounts, account_id)
                           /\ followers' = Tail(followers)
                           /\ saving' = "followed"
                           /\ pc' = "save_open"
    /\ UNCHANGED <<config, cycle, crashes, processed_posts, liked_posts, disk,
                   ai, statuses, liked_count, persisted, likeGhost, fnVars,
                   fileVars,
                   loaded, deployVars>>

\* check_follow_back returns; run() goes to sleep
FollowEnd ==
    /\ pc = "follow_next"
    /\ followers = <<>>
    /\ pc' = "sleep"
    /\ UNCHANGED <<config, cycle, crashes, memVars, disk, loopVars, last, done,
                   persisted, likeGhost, fnVars, fileVars,
                   loaded, deployVars, flog>>

(***************************************************************************)
(* run(): time.sleep returns and the next cycle starts                     *)
(***************************************************************************)
SleepReloads ==
    /\ pc = "sleep"
    /\ cycle < MaxCycles
    /\ cycle' = cycle + 1
    /\ flog' = FollowLog(<<>>, <<>>)
    /\ pc' = "repost_account"
    /\ ai' = 1
    /\ config' = ConfigFromStore(store)
    /\ UNCHANGED <<crashes, memVars, disk, statuses, followers, liked_count,
                   saving, last, done, persisted, likeGhost, fnVars, fileVars,
                   loaded, deployVars>>

SleepReturns ==
    /\ pc = "sleep"
    /\ cycle < MaxCycles
    /\ pc' = "off"
    /\ UNCHANGED <<config, cycle, crashes, memVars, disk, loopVars, last, done,
                   persisted, likeGhost, fnVars, fileVars, loaded, deployVars, flog>>

Sleep ==
    /\ pc = "sleep"
    /\ cycle < MaxCycles
    /\ cycle' = cycle + 1
    /\ flog' = FollowLog(<<>>, <<>>)
    /\ pc' = "repost_account"
    /\ ai' = 1
    /\ UNCHANGED <<config, crashes, memVars, disk, statuses, followers,
                   liked_count, saving, last, done, persisted, likeGhost,
                   fnVars, fileVars,
                   loaded, deployVars>>

Next ==
    \/ Startup
    \/ RepostResolve \/ RepostFetch \/ RepostStatus \/ RepostListingEnd
    \/ RepostPhaseEnd
    \/ LikeStart \/ LikeResolve \/ LikeFetch \/ LikeStatus \/ LikeListingEnd
    \/ LikePhaseEnd
    \/ FollowStart \/ FollowMe \/ FollowFetch \/ FollowNext \/ FollowEnd
    \/ SaveOpen \/ SaveWrite
    \/ Sleep

Spec == Init /\ [][Next]_vars

TypeOK ==
    /\ pc \in {"off", "boot", "no_config", "no_token", "no_settings", "stopped",
               "init", "aborted", "fatal", "repost_account", "repost_fetch",
               "repost_status", "like_start", "like_account", "like_fetch",
               "like_status", "follow_start", "follow_me", "follow_fetch",
               "follow_next", "save_open", "save_write", "sleep"}
    /\ processed_posts \subseteq StatusIds
    /\ liked_posts \subseteq StatusIds
    /\ followed_accounts \subseteq FollowerIds
    /\ liked_count \in 0..(MaxListing * 2)

(***************************************************************************)
(* web_ui.py: the handlers of the configuration pages.  Each request is    *)
(* served from _load_config to the redirect.                               *)
(***************************************************************************)
botVars == <<pc, config, cycle, crashes, memVars, disk, loopVars, last, done,
             persisted, likeGhost, fnVars, fileVars, loaded, bootVars,
             remote, flog>>

\* str.strip on the texts a form can carry
strip(text) ==
    CASE text = " " -> ""
      [] text = " u1 " -> "u1"
      [] text = " t1 " -> "t1"
      [] text = " a@x " -> "a@x"
      [] OTHER -> text

\* _load_config: the configuration read is the record returned; a missing
\* file is first written as a copy of the default configuration file
load_config(st) ==
    IF ~st.exists /\ st.has_default THEN [st EXCEPT !.exists = TRUE] ELSE st

save_config(cfg) == [cfg EXCEPT !.exists = TRUE]

RECURSIVE unique(_)
unique(accounts) ==
    IF accounts = <<>> THEN <<>>
    ELSE LET front == unique(SubSeq(accounts, 1, Len(accounts) - 1))
             account == accounts[Len(accounts)]
         IN IF account \in Range(front) THEN front ELSE Append(front, account)

\* _normalize_accounts on the lines of the text (text.splitlines())
normalize_accounts(lines) ==
    LET stripped == [i \in DOMAIN lines |-> strip(lines[i])]
    IN unique(SelectSeq(stripped, LAMBDA line : line # ""))

validate_token_any_answer(instance_url, token, answer) ==
    instance_url # "" /\ token # ""

\* _validate_token: answer is what the verify_credentials request yields
validate_token(instance_url, token, answer) ==
    IF instance_url = "" \/ token = "" THEN FALSE ELSE answer = "200"

LikeRuleAlwaysFresh(likes, account) ==
    Rule(account, TRUE, FALSE, FALSE, <<>>)

\* the rule save_accounts stores for an account: the last stored rule of the
\* account, or a fresh like_everything rule
LikeRuleFor(likes, account) ==
    LET at == {i \in DOMAIN likes : likes[i].account = account}
    IN IF at = {} THEN Rule(account, TRUE, FALSE, FALSE, <<>>)
       ELSE likes[CHOOSE i \in at : \A k \in at : k <= i]

Result(st, checked, answer, ok) ==
    [store |-> st, checked |-> checked, answer |-> answer, ok |-> ok]

save_instance_keeps_valid(st, form) ==
    LET cfg == load_config(st)
        instance_url == strip(form.instance_url)
    IN IF instance_url = "" THEN Result(cfg, "", "none", FALSE)
       ELSE Result(save_config([cfg EXCEPT !.instance_url = instance_url]),
                   "", "none", TRUE)

\* POST /save-instance
save_instance(st, form) ==
    LET cfg == load_config(st)
        instance_url == strip(form.instance_url)
    IN IF instance_url = "" THEN Result(cfg, "", "none", FALSE)
       ELSE Result(save_config([cfg EXCEPT !.instance_url = instance_url,
                                           !.token_valid = FALSE]),
                   "", "none", TRUE)

save_token(st, form, answer, key) ==
    LET token == strip(form.access_token)
        cfg == load_config(st)
        instance_url == cfg.instance_url
        asked == instance_url # "" /\ token # ""
        checked == IF asked THEN instance_url ELSE ""
        heard == IF asked THEN answer ELSE "none"
    IN IF token = "" THEN Result(st, "", "none", FALSE)
       ELSE IF ~validate_token(instance_url, token, answer)
            THEN Result(cfg, checked, heard, FALSE)
       ELSE IF ~key THEN Result(cfg, checked, heard, FALSE)
       ELSE Result(save_config([cfg EXCEPT
                                  !.access_token_encrypted = Cipher(token),
                                  !.access_token = "",
                                  !.token_valid = TRUE]),
                   checked, heard, TRUE)

GateIgnoresToken(cfg) == cfg.instance_url # ""

\* the test save_accounts makes before it touches the lists
GateOpen(cfg) == cfg.instance_url # "" /\ cfg.token_valid

save_accounts_rebuilds_likes(st, form) ==
    LET cfg == load_config(st)
        boosted == IF form.has_boost
                   THEN [cfg EXCEPT !.accounts_to_monitor =
                                       normalize_accounts(form.boost_accounts)]
                   ELSE cfg
        like_accounts == normalize_accounts(form.like_accounts)
        new_likes == [i \in DOMAIN like_accounts |->
                         LikeRuleFor(cfg.likes, like_accounts[i])]
        liked == [boosted EXCEPT !.likes = new_likes]
    IN IF ~GateOpen(cfg) THEN Result(cfg, "", "none", FALSE)
       ELSE Result(save_config(liked), "", "none", TRUE)

\* POST /save-accounts
save_accounts(st, form) ==
    LET cfg == load_config(st)
        boosted == IF form.has_boost
                   THEN [cfg EXCEPT !.accounts_to_monitor =
                                       normalize_accounts(form.boost_accounts)]
                   ELSE cfg
        like_accounts == normalize_accounts(form.like_accounts)
        new_likes == [i \in DOMAIN like_accounts |->
                         LikeRuleFor(cfg.likes, like_accounts[i])]
        liked == IF form.has_like THEN [boosted EXCEPT !.likes = new_likes]
                 ELSE boosted
    IN IF ~GateOpen(cfg) THEN Result(cfg, "", "none", FALSE)
       ELSE Result(save_config(liked), "", "none", TRUE)

RawUrls == {"", " ", "u1", " u1 ", "u2"}
RawTokens == {"", " ", "t1", " t1 ", "t2"}
VerifyAnswers == {"200", "401", "error"}
AccountTexts ==
    {<<>>, <<"a@x">>, <<" a@x ", "", "a@x", "c@z">>, <<"b@y", "a@x">>}

InstanceForms == {Form(u, "", FALSE, <<>>, FALSE, <<>>) : u \in RawUrls}
TokenForms == {Form("", t, FALSE, <<>>, FALSE, <<>>) : t \in RawTokens}
AccountForms ==
    {Form("", "", hb, b, hl, l) :
        hb \in BOOLEAN, hl \in BOOLEAN, b \in AccountTexts, l \in AccountTexts}

Serve(route, form, result) ==
    /\ w_budget' = w_budget - 1
    /\ store' = result.store
    /\ w_last' = Served(route, form, result.checked, result.answer, result.ok)
    /\ UNCHANGED <<botVars, race>>

\* GET /
Index ==
    /\ w_budget > 0
    /\ Serve("index", NoForm, Result(load_config(store), "", "none", TRUE))

SaveInstance ==
    \E form \in InstanceForms :
        /\ w_budget > 0
        /\ Serve("save_instance", form, save_instance(store, form))

SaveToken ==
    \E form \in TokenForms, answer \in VerifyAnswers :
        /\ w_budget > 0
        /\ Serve("save_token", form,
                 save_token(store, form, answer, env.TOKEN_ENC_KEY))

\* a field that is not in the form reads as the empty text
SaveAccounts ==
    \E form \in AccountForms :
        /\ w_budget > 0
        /\ form.has_boost \/ form.boost_accounts = <<>>
        /\ form.has_like \/ form.like_accounts = <<>>
        /\ Serve("save_accounts", form, save_accounts(store, form))

DefaultSettings == BotSettings(TRUE, Flags(FALSE, TRUE, FALSE), 1, TRUE)

\* configuration files the web UI is started on: none, only the default
\* file, a file of an earlier version with a plain token, a file edited by
\* hand with token_valid but no instance URL
WebStores ==
    {NoStore,
     DefaultOnly(Store("u1", FALSE, NoCipher, "", <<"a@x">>,
                       <<Rule("a@x", FALSE, FALSE, FALSE, <<<<"r">>>>)>>,
                       DefaultSettings)),
     Store("u1", TRUE, NoCipher, "t0", <<"a@x", "b@y">>,
           <<Rule("b@y", FALSE, TRUE, FALSE, <<>>),
             Rule("a@x", FALSE, FALSE, TRUE, <<>>),
             Rule("b@y", FALSE, FALSE, FALSE, <<<<"r">>>>)>>,
           DefaultSettings),
     Store("", TRUE, Cipher("t2"), "", <<"b@y">>, <<>>, DefaultSettings)}

InitWeb ==
    /\ BotOff
    /\ FnIdle
    /\ FileIdle
    /\ store \in WebStores
    /\ env \in {Env("", "", key) : key \in BOOLEAN}
    /\ client = NoClient
    /\ w_last = NoRequest
    /\ w_budget = MaxRequests
    /\ race = NoRace
    /\ remote = NoRemote

NextWeb == Index \/ SaveInstance \/ SaveToken \/ SaveAccounts

SpecWeb == InitWeb /\ [][NextWeb]_vars

(***************************************************************************)
(* The bot and the web UI side by side on one config.yaml: the bot process *)
(* is started (lines 41-42 and 56-68 of __init__, then the loads) while    *)
(* the web UI serves requests.                                             *)
(***************************************************************************)
DefaultInstance == "https://mastodon.social"

\* _load_config, _init_mastodon and the settings of __init__
Boot ==
    /\ pc = "boot"
    /\ LET access_token == env.MASTODON_ACCESS_TOKEN
           instance_url ==
               IF env.MASTODON_INSTANCE_URL # "" THEN env.MASTODON_INSTANCE_URL
               ELSE IF store.instance_url # "" THEN store.instance_url
               ELSE DefaultInstance
       IN IF ~store.exists
          THEN pc' = "no_config" /\ UNCHANGED <<config, client>>
          ELSE IF access_token = ""
          THEN pc' = "no_token" /\ UNCHANGED <<config, client>>
          ELSE IF ~store.bot.present
          THEN pc' = "no_settings" /\ UNCHANGED <<config, client>>
          ELSE /\ pc' = "init"
               /\ client' = Client(access_token, instance_url)
               /\ config' = ConfigFromStore(store)
    /\ UNCHANGED <<cycle, crashes, memVars, disk, loopVars, last, done,
                   persisted, likeGhost, fnVars, fileVars, loaded, env,
                   webVars, remote, flog>>

\* the requests the web UI serves while the bot is up
DeployRequests ==
    {[route |-> "save_instance",
      form |-> Form("u2", "", FALSE, <<>>, FALSE, <<>>), answer |-> "none"],
     [route |-> "save_token",
      form |-> Form("", "t2", FALSE, <<>>, FALSE, <<>>), answer |-> "200"],
     [route |-> "save_accounts",
      form |-> Form("", "", TRUE, <<"b@y", "a@x">>, TRUE, <<"b@y">>),
      answer |-> "none"]}

Handle(request) ==
    CASE request.route = "save_instance" -> save_instance(store, request.form)
      [] request.route = "save_token" ->
            save_token(store, request.form, request.answer, env.TOKEN_ENC_KEY)
      [] OTHER -> save_accounts(store, request.form)

WebRequest ==
    \E request \in DeployRequests :
        /\ w_budget > 0
        /\ Serve(request.route, request.form, Handle(request))

\* config.yaml as the web UI left it (instance, validated token stored
\* encrypted, one account to boost and to like), no config.yaml, and a
\* config.yaml without the bot section
DeployStores ==
    {Store("u1", TRUE, Cipher("t1"), "", <<"a@x">>,
           <<Rule("a@x", TRUE, FALSE, FALSE, <<>>)>>, DefaultSettings),
     NoStore,
     Store("u1", FALSE, NoCipher, "", <<"a@x">>, <<>>, NoSettings)}

DeployEnvs == {Env("", "", TRUE), Env("t9", "", TRUE), Env("t9", "u9", TRUE)}

InitDeploy ==
    /\ pc = "boot"
    /\ BotBlank
    /\ FnIdle
    /\ FileIdle
    /\ store \in DeployStores
    /\ env \in DeployEnvs
    /\ client = NoClient
    /\ w_last = NoRequest
    /\ w_budget = 1
    /\ race = NoRace
    /\ remote = NoRemote

NextDeploy == Boot \/ Next \/ WebRequest

SpecDeploy == InitDeploy /\ [][NextDeploy]_vars

(***************************************************************************)
(* Requests served side by side (app.run serves each request in a thread   *)
(* of its own): a handler loads the configuration, decides on what it has  *)
(* loaded, and writes the whole file back; _save_config opens the file for *)
(* writing, which empties it, and then dumps.                              *)
(***************************************************************************)
\* config.yaml opened with "w" and nothing dumped yet; read as {}
EmptyFile(st) == [NoStore EXCEPT !.exists = TRUE, !.has_default = st.has_default]

RaceRequests ==
    {[route |-> "save_instance", form |-> form, answer |-> "none"] :
        form \in InstanceForms}
    \cup {[route |-> "save_token", form |-> form, answer |-> answer] :
            form \in TokenForms, answer \in VerifyAnswers}
    \cup {[route |-> "save_accounts",
           form |-> Form("", "", TRUE, boost, FALSE, <<>>), answer |-> "none"] :
            boost \in {<<>>, <<"b@y", "a@x">>}}

\* the handler up to its first write: _load_config (save_token returns
\* before it when the form has no token), the tests on what was loaded and,
\* in save_token, the verify_credentials request
RaceLoad(t) ==
    \E request \in RaceRequests :
        LET result == Handle(request)
            loads == ~(request.route = "save_token"
                       /\ strip(request.form.access_token) = "")
            copy == IF loads /\ ~store.exists /\ store.has_default
                    THEN <<load_config(store)>> ELSE <<>>
            save == IF result.ok THEN <<result.store>> ELSE <<>>
            told == IF result.answer = "200"
                    THEN {<<result.checked, strip(request.form.access_token)>>}
                    ELSE {}
        IN /\ w_budget > 0
           /\ race.threads[t] = NoRace.threads[t]
           /\ w_budget' = w_budget - 1
           /\ w_last' = Served(request.route, request.form, result.checked,
                               result.answer, result.ok)
           /\ race' = [threads |-> [race.threads EXCEPT ![t] =
                                        [writes |-> copy \o save,
                                         opened |-> FALSE]],
                       vouched |-> race.vouched \cup told]
           /\ UNCHANGED <<store, botVars>>

RaceOpenMerging(t) ==
    /\ race.threads[t].writes # <<>>
    /\ ~race.threads[t].opened
    /\ LET mine == Head(race.threads[t].writes)
           merged == IF mine.token_valid
                     THEN [load_config(store) EXCEPT
                             !.access_token_encrypted = mine.access_token_encrypted,
                             !.access_token = mine.access_token,
                             !.token_valid = TRUE]
                     ELSE mine
       IN race' = [race EXCEPT !.threads[t] =
                       [writes |-> <<merged>> \o Tail(@.writes),
                        opened |-> TRUE]]
    /\ store' = EmptyFile(store)
    /\ UNCHANGED <<w_last, w_budget, botVars>>

\* config_path.open("w") of _save_config
RaceOpen(t) ==
    /\ race.threads[t].writes # <<>>
    /\ ~race.threads[t].opened
    /\ race' = [race EXCEPT !.threads[t].opened = TRUE]
    /\ store' = EmptyFile(store)
    /\ UNCHANGED <<w_last, w_budget, botVars>>

\* yaml.dump of _save_config and the close of the file
RaceDump(t) ==
    /\ race.threads[t].opened
    /\ store' = [Head(race.threads[t].writes) EXCEPT
                    !.has_default = store.has_default]
    /\ race' = [race EXCEPT !.threads[t] =
                    [writes |-> Tail(@.writes), opened |-> FALSE]]
    /\ UNCHANGED <<w_last, w_budget, botVars>>

\* configurations without token_valid: none, only the default file, a file
\* of an earlier version with a plain token, a file whose instance was
\* changed after a token had been stored
RaceStores ==
    {NoStore,
     DefaultOnly(Store("u1", FALSE, NoCipher, "", <<"a@x">>, <<>>,
                       DefaultSettings)),
     Store("u1", FALSE, NoCipher, "t0", <<"a@x">>, <<>>, DefaultSettings),
     Store("u2", FALSE, Cipher("t1"), "", <<"a@x">>, <<>>, DefaultSettings)}

InitRace ==
    /\ BotOff
    /\ FnIdle
    /\ FileIdle
    /\ store \in RaceStores
    /\ env = Env("", "", TRUE)
    /\ client = NoClient
    /\ w_last = NoRequest
    /\ w_budget = MaxRequests
    /\ race = NoRace
    /\ remote = NoRemote

NextRace ==
    \E t \in 1..MaxRacing : RaceLoad(t) \/ RaceOpen(t) \/ RaceDump(t)

SpecRace == InitRace /\ [][NextRace]_vars

(***************************************************************************)
(* The bot process is killed and started again: memory is lost, the files  *)
(* stay as they are.                                                       *)
(***************************************************************************)
Crash ==
    /\ pc \notin {"init", "aborted", "fatal"}
    /\ crashes < MaxCrashes
    /\ crashes' = crashes + 1
    /\ flog' = FollowLog(<<>>, <<>>)
    /\ pc' = "init"
    /\ processed_posts' = {}
    /\ liked_posts' = {}
    /\ followed_accounts' = {}
    /\ ai' = 1
    /\ statuses' = <<>>
    /\ followers' = <<>>
    /\ liked_count' = 0
    /\ saving' = "none"
    /\ last' = NoCall
    /\ cycleLikes' = 0
    /\ qual' = {}
    /\ likeFail' = FALSE
    /\ loaded' = [d \in Domains |-> {}]
    /\ UNCHANGED <<config, cycle, disk, done, persisted, fnVars, fileVars,
                   deployVars>>

(***************************************************************************)
(* run() as a loop without end: while True has no exit of its own.  The    *)
(* count of cycles stops at MaxCycles, the loop does not.  KeyboardInterrupt*)
(* can arrive at any point of run() and ends the process: its memory is    *)
(* gone, the files stay.                                                   *)
(***************************************************************************)
SleepOn ==
    /\ pc = "sleep"
    /\ cycle = MaxCycles
    /\ flog' = FollowLog(<<>>, <<>>)
    /\ pc' = "repost_account"
    /\ ai' = 1
    /\ UNCHANGED <<config, cycle, crashes, memVars, disk, statuses, followers,
                   liked_count, saving, last, done, persisted, likeGhost,
                   fnVars, fileVars, loaded, deployVars>>

Interrupt ==
    /\ pc \notin {"off", "init", "aborted", "fatal", "stopped"}
    /\ flog' = FollowLog(<<>>, <<>>)
    /\ pc' = "stopped"
    /\ processed_posts' = {}
    /\ liked_posts' = {}
    /\ followed_accounts' = {}
    /\ ai' = 1
    /\ statuses' = <<>>
    /\ followers' = <<>>
    /\ liked_count' = 0
    /\ saving' = "none"
    /\ last' = NoCall
    /\ cycleLikes' = 0
    /\ qual' = {}
    /\ likeFail' = FALSE
    /\ loaded' = [d \in Domains |-> {}]
    /\ UNCHANGED <<config, cycle, crashes, disk, done, persisted, fnVars,
                   fileVars, deployVars>>

LiveConfigs ==
    {Config(<<"a@x", "b@y">>, Flags(FALSE, TRUE, FALSE),
            <<Rule("a@x", TRUE, FALSE, FALSE, <<>>)>>, 1, TRUE)}

LiveDisks == {Disk(Missing, Missing, Missing)}

InitLive == InitWith(LiveConfigs, LiveDisks)

Step == Next \/ SleepOn

NextLive == Step \/ Interrupt

\* every statement of run() that can be executed is executed: remote calls
\* return or raise, time.sleep returns; only the interrupt may never come
SpecLive == InitLive /\ [][NextLive]_vars /\ WF_vars(Step)

(***************************************************************************)
(* run() against an instance whose listings stay the same: every listing   *)
(* of an account returns remote.listing of it, no call fails in transport, *)
(* and where the instance is steady every call succeeds and every handle   *)
(* resolves.                                                               *)
(***************************************************************************)
Listed(ids) == [i \in DOMAIN ids |-> CHOOSE st \in Catalog : st.id = ids[i]]

Worlds ==
    {Remote([h \in Handles |->
                IF h = "a@x" THEN Listed(<<"s1", "s2">>)
                ELSE Listed(<<"s3", "s1">>)], steady) : steady \in BOOLEAN}

ProgressConfigs ==
    {Config(<<"a@x">>, Flags(FALSE, FALSE, FALSE),
            <<Rule("a@x", TRUE, FALSE, FALSE, <<>>),
              Rule("b@y", TRUE, FALSE, FALSE, <<>>)>>, 1, TRUE),
     Config(<<"b@y">>, Flags(FALSE, TRUE, FALSE),
            <<Rule("b@y", FALSE, FALSE, FALSE, <<<<"r">>>>),
              Rule("a@x", FALSE, FALSE, FALSE, <<>>)>>, 2, FALSE)}

ProgressDisks ==
    {Disk(Missing, Missing, Missing),
     Disk(Missing, Obj(SaveKey("liked"), "array", <<"s1">>), Missing)}

InitProgress ==
    /\ InitBot(ProgressConfigs, ProgressDisks)
    /\ remote \in Worlds
    /\ store = NoStore
    /\ env = Env("", "", FALSE)
    /\ client = NoClient
    /\ w_last = NoRequest
    /\ w_budget = 0
    /\ race = NoRace

\* the outcome of the call of this step, and the listing it returns
Calm ==
    /\ last'.res # "transport_error"
    /\ remote.steady => last'.res \in {"ok", ""}
    /\ pc \in {"repost_fetch", "like_fetch"}
         /\ pc' \in {"repost_status", "like_status"}
       => statuses' = remote.listing[last'.arg]

\* the steps of run(), each with a calm instance
NextProgress ==
    \/ Startup /\ Calm
    \/ RepostResolve /\ Calm
    \/ RepostFetch /\ Calm
    \/ RepostStatus /\ Calm
    \/ RepostListingEnd /\ Calm
    \/ RepostPhaseEnd /\ Calm
    \/ LikeStart /\ Calm
    \/ LikeResolve /\ Calm
    \/ LikeFetch /\ Calm
    \/ LikeStatus /\ Calm
    \/ LikeListingEnd /\ Calm
    \/ LikePhaseEnd /\ Calm
    \/ FollowStart /\ Calm
    \/ FollowMe /\ Calm
    \/ FollowFetch /\ Calm
    \/ FollowNext /\ Calm
    \/ FollowEnd /\ Calm
    \/ SaveOpen /\ Calm
    \/ SaveWrite /\ Calm
    \/ Sleep /\ Calm
    \/ SleepOn /\ Calm

SpecProgress == InitProgress /\ [][NextProgress]_vars /\ WF_vars(NextProgress)

\* One account that is monitored, liked and followed back, started on the
\* files a previous run left behind.
CrashConfigs ==
    {Config(<<"a@x">>, Flags(FALSE, FALSE, FALSE),
            <<Rule("a@x", TRUE, FALSE, FALSE, <<>>)>>, 1, TRUE)}

CrashDisks ==
    {Disk(Obj("posts", "array", <<"s1">>), Missing, Missing)}

InitCrash == InitWith(CrashConfigs, CrashDisks)

NextCrash == Next \/ Crash

SpecCrash == InitCrash /\ [][NextCrash]_vars

(***************************************************************************)
(* The filter functions applied to every status shape, rule and flag set.  *)
(***************************************************************************)
FilterStatuses ==
    {Status("s1", reply, rb, media, tags) :
        reply \in {None, "p"}, rb \in {None, "rb"}, media \in {<<>>, <<"m">>},
        tags \in SeqsUpTo({[name |-> n] : n \in TagNames}, MaxTags)}

FilterRules ==
    {Rule("a@x", all, r, m, tags) :
        all \in BOOLEAN, r \in BOOLEAN, m \in BOOLEAN,
        tags \in SeqsUpTo(TagNames, MaxRuleTags)}

FilterFlags == {Flags(b, r, x) : b \in BOOLEAN, r \in BOOLEAN, x \in BOOLEAN}

NoOut == [fn |-> "none", bool |-> FALSE, set |-> {}]

InitFilter ==
    /\ BotIdle
    /\ FileIdle
    /\ f_status \in FilterStatuses
    /\ f_rule \in FilterRules
    /\ f_flags \in FilterFlags
    /\ f_out = NoOut

ApplyShouldRepost ==
    /\ f_out = NoOut
    /\ f_out' = [fn |-> "should_repost",
                 bool |-> should_repost(f_flags, f_status), set |-> {}]
    /\ UNCHANGED <<pc, config, cycle, crashes, memVars, disk, loopVars, last,
                   done, persisted, likeGhost, f_status, f_rule, f_flags,
                   fileVars,
                   loaded, deployVars, flog>>

ApplyShouldLike ==
    /\ f_out = NoOut
    /\ f_out' = [fn |-> "should_like",
                 bool |-> should_like(f_status, f_rule), set |-> {}]
    /\ UNCHANGED <<pc, config, cycle, crashes, memVars, disk, loopVars, last,
                   done, persisted, likeGhost, f_status, f_rule, f_flags,
                   fileVars,
                   loaded, deployVars, flog>>

ApplyExtractHashtags ==
    /\ f_out = NoOut
    /\ f_out' = [fn |-> "extract_hashtags", bool |-> FALSE,
                 set |-> extract_hashtags(f_status)]
    /\ UNCHANGED <<pc, config, cycle, crashes, memVars, disk, loopVars, last,
                   done, persisted, likeGhost, f_status, f_rule, f_flags,
                   fileVars,
                   loaded, deployVars, flog>>

NextFilter == ApplyShouldRepost \/ ApplyShouldLike \/ ApplyExtractHashtags

SpecFilter == InitFilter /\ [][NextFilter]_vars

(***************************************************************************)
(* One dedup file: loaded as __init__ loads it, or written by a save and   *)
(* loaded again by a fresh process.                                        *)
(***************************************************************************)
FileIds == {"s1", "s2", "f1"}
FileChars == {"s", "1"}

FileStates ==
    {Missing, Invalid, NonObject}
    \cup {Obj(k, "array", its) : k \in {"posts", "accounts", ""},
                                   its \in SeqsUpTo(FileIds, MaxListing)}
    \cup {Obj(k, "string", its) : k \in {"posts", "accounts"},
                                    its \in SeqsUpTo(FileChars, MaxListing)}
    \cup {Obj(k, t, <<>>) : k \in {"posts", "accounts"}, t \in {"null", "number"}}

InitFiles ==
    /\ BotIdle
    /\ FnIdle
    /\ d_dom \in Domains
    /\ d_file \in FileStates
    /\ d_in \in SUBSET FileIds
    /\ d_set = d_in
    /\ d_pc = "start"

\* __init__ sets the set to set() and calls _load_*
FileLoad ==
    /\ d_pc = "start"
    /\ LET r == LoadFile(d_file, LoadKey(d_dom), {})
       IN /\ d_set' = r.set
          /\ d_pc' = IF r.exc = "none" THEN "loaded" ELSE "raised"
    /\ UNCHANGED <<pc, config, cycle, crashes, memVars, disk, loopVars, last,
                   done, persisted, likeGhost, fnVars, d_dom, d_file, d_in,
                   loaded, deployVars, flog>>

\* _save_* of the set in memory: open(file, 'w') ...
FileSaveOpen ==
    /\ d_pc = "start"
    /\ d_file' = TruncateFile
    /\ d_pc' = "writing"
    /\ UNCHANGED <<pc, config, cycle, crashes, memVars, disk, loopVars, last,
                   done, persisted, likeGhost, fnVars, d_dom, d_set, d_in,
                   loaded, deployVars, flog>>

\* ... and json.dump
FileSaveWrite ==
    /\ d_pc = "writing"
    /\ d_file' \in DumpFiles(SaveKey(d_dom), d_set)
    /\ d_pc' = "saved"
    /\ UNCHANGED <<pc, config, cycle, crashes, memVars, disk, loopVars, last,
                   done, persisted, likeGhost, fnVars, d_dom, d_set, d_in,
                   loaded, deployVars, flog>>

\* _load_* of the file just written, in a fresh process
FileReload ==
    /\ d_pc = "saved"
    /\ LET r == LoadFile(d_file, LoadKey(d_dom), {})
       IN /\ d_set' = r.set
          /\ d_pc' = IF r.exc = "none" THEN "reloaded" ELSE "reload_raised"
    /\ UNCHANGED <<pc, config, cycle, crashes, memVars, disk, loopVars, last,
                   done, persisted, likeGhost, fnVars, d_dom, d_file, d_in,
                   loaded, deployVars, flog>>

NextFiles == FileLoad \/ FileSaveOpen \/ FileSaveWrite \/ FileReload

SpecFiles == InitFiles /\ [][NextFiles]_vars

(***************************************************************************)
(* Properties                                                              *)
(***************************************************************************)
Min(a, b) == IF a <= b THEN a ELSE b

ActionCalls == {"status_reblog", "status_favourite", "account_follow"}

NoDupCall == last.op \in ActionCalls => ~last.dup

OncePerId ==
    /\ \A i \in StatusIds : done.reblog[i] <= 1 /\ done.favourite[i] <= 1
    /\ \A i \in FollowerIds : done.follow[i] <= 1

DupStepFrame ==
    /\ (pc = "repost_status" /\ statuses # <<>>
        /\ Head(statuses).id \in processed_posts)
       => (processed_posts' = processed_posts /\ disk' = disk /\ last' = last)
    /\ (pc = "like_status" /\ statuses # <<>>
        /\ Head(statuses).id \in liked_posts)
       => (liked_posts' = liked_posts /\ disk' = disk /\ last' = last)
    /\ (pc = "follow_next" /\ followers # <<>>
        /\ Head(followers) \in followed_accounts)
       => (followed_accounts' = followed_accounts /\ disk' = disk /\ last' = last)

\* C1: in a run without crash, no reblog, favourite or follow call is issued
\* for an id that is in the corresponding set at that moment, processing such
\* an id changes neither the set nor its file nor issues a call, and every id
\* is successfully acted upon at most once per domain.
C1_AtMostOnce == [](NoDupCall /\ OncePerId) /\ [][DupStepFrame]_vars

\* a status reblogged earlier in this run is listed again
C1_Witness ==
    /\ pc = "repost_status"
    /\ statuses # <<>>
    /\ done.reblog[Head(statuses).id] = 1
    /\ Head(statuses).id \in processed_posts

\* C2: every failure of a remote call in a poll cycle, transport failure or
\* API failure, is caught inside the cycle, so that the run goes on.
C2_RemoteFailuresCaught ==
    last.res \in {"api_error", "transport_error"} => pc # "fatal"

\* C3: the successful favourite calls of one cycle never exceed
\* max_likes_per_check, counted over all like accounts; when no call of the
\* like phase failed, their number at the end of the phase is the smaller of
\* the quota and the number of new qualifying statuses listed.
C3_LikeQuota ==
    /\ cycleLikes <= config.max_likes_per_check
    /\ (pc = "follow_start" /\ ~likeFail)
       => cycleLikes = Min(config.max_likes_per_check, Cardinality(qual))

\* quota 2, three qualifying statuses, two of them liked
C3_Witness ==
    /\ pc = "follow_start"
    /\ ~likeFail
    /\ config.max_likes_per_check = 2
    /\ Cardinality(qual) = 3
    /\ cycleLikes = 2

\* C4: after a crash at any point and a restart, every id whose save had
\* completed is in the set the bot works with.
C4_NoSavedIdLost ==
    pc \notin {"init", "aborted"}
    => \A d \in Domains : persisted[d] \subseteq MemSet(d)

\* C5: loading a dedup file never raises, whatever the file holds.
C5_LoadNeverRaises == d_pc # "raised"

\* C6: for each domain and every set S of ids, the set loaded from the file
\* that a save of S wrote is S, and that load does not raise.
C6_RoundTrip ==
    /\ d_pc # "reload_raised"
    /\ d_pc = "reloaded" => d_set = d_in

\* a set of two followed accounts saved and loaded again
C6_Witness ==
    /\ d_pc = "reloaded"
    /\ d_dom = "followed"
    /\ Cardinality(d_in) = 2

BetweenOperations ==
    {"repost_account", "repost_fetch", "repost_status", "like_start",
     "like_account", "like_fetch", "like_status", "follow_start", "follow_me",
     "follow_fetch", "follow_next", "sleep"}

\* C7: after startup, at every position of the bot outside a save, hence at
\* every position where a remote call is issued, each dedup file loads
\* without error to exactly the set in memory.
C7_FilesMatchMemory ==
    pc \in BetweenOperations
    => \A d \in Domains :
         LoadFile(disk[d], LoadKey(d), {}) = [exc |-> "none", set |-> MemSet(d)]

\* two reblogs of this run recorded and saved, the next call about to be issued
C7_Witness ==
    /\ pc = "repost_account"
    /\ Cardinality(persisted["processed"]) >= 2
    /\ Cardinality(liked_posts) >= 1

HasReplyParent(status) == status.in_reply_to_id # None
WrapsReblog(status) == status.reblog # None
HasMedia(status) == status.media_attachments # <<>>

\* C8: should_repost is false exactly when exclude_replies is set and the
\* status is a reply, or exclude_reblogs is set and the status wraps a
\* reblog, or boost_only is set and the status has no media.
C8_ShouldRepost ==
    f_out.fn = "should_repost"
    => (f_out.bool = FALSE
        <=> \/ f_flags.exclude_replies /\ HasReplyParent(f_status)
            \/ f_flags.exclude_reblogs /\ WrapsReblog(f_status)
            \/ f_flags.boost_only /\ ~HasMedia(f_status))

\* boost_only alone rejects a status without media
C8_Witness ==
    /\ f_out.fn = "should_repost"
    /\ f_flags = Flags(TRUE, FALSE, FALSE)
    /\ ~HasMedia(f_status)
    /\ f_out.bool = FALSE

Carries(status, tag) ==
    \E j \in 1..Len(status.tags) : Lower(status.tags[j].name) = Lower(tag)

\* C9: should_like is true when like_everything is set; otherwise it is the
\* conjunction of: not (exclude_replies and reply), not (require_media and no
\* media), and (no hashtags in the rule or the status carries one of them).
C9_ShouldLike ==
    f_out.fn = "should_like"
    => f_out.bool =
         IF f_rule.like_everything THEN TRUE
         ELSE /\ ~(f_rule.exclude_replies /\ HasReplyParent(f_status))
              /\ ~(f_rule.require_media /\ ~HasMedia(f_status))
              /\ \/ f_rule.hashtags = <<>>
                 \/ \E i \in 1..Len(f_rule.hashtags) :
                       Carries(f_status, f_rule.hashtags[i])

\* like_everything overrides exclude_replies on a reply
C9_Witness ==
    /\ f_out.fn = "should_like"
    /\ f_rule.like_everything
    /\ f_rule.exclude_replies
    /\ HasReplyParent(f_status)
    /\ f_out.bool = TRUE

SameIgnoringCase(a, b) ==
    /\ Len(a) = Len(b)
    /\ \A i \in 1..Len(a) : LowerChar(a[i]) = LowerChar(b[i])

IsProperPrefix(a, b) ==
    /\ Len(a) < Len(b)
    /\ \A i \in 1..Len(a) : LowerChar(a[i]) = LowerChar(b[i])

HashtagOnly(rule) ==
    /\ ~rule.like_everything
    /\ ~rule.exclude_replies
    /\ ~rule.require_media
    /\ rule.hashtags # <<>>

\* C10: a rule that filters on hashtags only accepts a status iff one of its
\* tags equals one of the status's tags up to letter case; a rule tag that is
\* a proper prefix of a status tag, or the converse, does not make a match.
C10_HashtagMatch ==
    (f_out.fn = "should_like" /\ HashtagOnly(f_rule))
    => /\ f_out.bool =
            (\E i \in 1..Len(f_rule.hashtags), j \in 1..Len(f_status.tags) :
                SameIgnoringCase(f_rule.hashtags[i], f_status.tags[j].name))
       /\ (\A i \in 1..Len(f_rule.hashtags), j \in 1..Len(f_status.tags) :
              \/ IsProperPrefix(f_rule.hashtags[i], f_status.tags[j].name)
              \/ IsProperPrefix(f_status.tags[j].name, f_rule.hashtags[i]))
          => f_out.bool = FALSE

\* the rule tag R matches a status tagged r
C10_Witness ==
    /\ f_out.fn = "should_like"
    /\ HashtagOnly(f_rule)
    /\ f_rule.hashtags = <<<<"R">>>>
    /\ f_status.tags = <<[name |-> <<"r">>]>>
    /\ f_out.bool = TRUE

CatalogStatus(id) == CHOOSE st \in Catalog : st.id = id

PassesRepostRules(flags, status) ==
    /\ ~(flags.exclude_replies /\ HasReplyParent(status))
    /\ ~(flags.exclude_reblogs /\ WrapsReblog(status))
    /\ ~(flags.boost_only /\ ~HasMedia(status))

\* C11: every id in ProcessedSet that the start did not load was reblogged
\* successfully in this run, and every status reblogged in this run passes
\* the repost rules of the configuration and is recorded.
C11_OnlyPassingReposted ==
    \A id \in StatusIds :
       /\ id \in processed_posts \ loaded.processed => done.reblog[id] >= 1
       /\ done.reblog[id] >= 1
          => /\ PassesRepostRules(config.flags, CatalogStatus(id))
             /\ id \in processed_posts

\* exclude_replies set, the root status s1 reblogged and recorded, the reply
\* s2 of the same listing not recorded
C11_Witness ==
    /\ config.flags.exclude_replies
    /\ pc = "repost_status"
    /\ statuses = <<CatalogStatus("s2")>>
    /\ last = Called("status_reblog", "s1", "ok", FALSE)
    /\ processed_posts = {"s1"}
    /\ loaded.processed = {}

\* C12: no step of a run removes an id from ProcessedSet, LikedSet or
\* FollowedSet.
C12_SetsOnlyGrow ==
    [][/\ processed_posts \subseteq processed_posts'
       /\ liked_posts \subseteq liked_posts'
       /\ followed_accounts \subseteq followed_accounts']_vars

\* a failed action call with two ids recorded
C12_Witness ==
    /\ last.op \in ActionCalls
    /\ last.res = "api_error"
    /\ Cardinality(processed_posts) >= 2
    /\ Cardinality(liked_posts) >= 1

PhaseOfSave ==
    CASE saving = "processed" -> 1
      [] saving = "liked" -> 2
      [] saving = "followed" -> 3
      [] OTHER -> 0

\* 1 repost phase, 2 like phase, 3 follow-back phase, 4 sleep, 0 not in a cycle
PhaseOf ==
    CASE pc \in {"repost_account", "repost_fetch", "repost_status"} -> 1
      [] pc \in {"like_start", "like_account", "like_fetch", "like_status"} -> 2
      [] pc \in {"follow_start", "follow_me", "follow_fetch", "follow_next"} -> 3
      [] pc = "sleep" -> 4
      [] pc \in {"save_open", "save_write"} -> PhaseOfSave
      [] OTHER -> 0

PhaseStep ==
    /\ \/ PhaseOf' = PhaseOf /\ cycle' = cycle
       \/ PhaseOf \in 1..3 /\ PhaseOf' = PhaseOf + 1 /\ cycle' = cycle
       \/ PhaseOf = 4 /\ PhaseOf' = 1 /\ cycle' = cycle + 1
       \/ PhaseOf = 0 /\ PhaseOf' = 1 /\ cycle' = cycle + 1
       \/ PhaseOf' = 0 /\ cycle' = cycle
    /\ pc \in {"save_open", "save_write"} => PhaseOfSave # 0

\* C13: within a cycle the bot is in the repost phase, then the like phase,
\* then the follow-back phase, then asleep; a phase is entered only from the
\* phase before it, and a new cycle starts only from the sleep (or the start
\* of the process).
C13_PhaseOrder == [][PhaseStep]_vars

\* the second cycle is over and each phase has acted
C13_Witness ==
    /\ pc = "sleep"
    /\ cycle = 2
    /\ \E i \in StatusIds : done.reblog[i] = 1
    /\ \E i \in StatusIds : done.favourite[i] = 1
    /\ \E i \in FollowerIds : done.follow[i] = 1

\* C15: without like rules the bot is never at a remote call of the like
\* phase, no favourite call returns and LikedSet stays as loaded; with
\* follow_back off the bot is never at a remote call of the follow-back
\* phase, none of its calls is the last call and FollowedSet stays as loaded.
C15_DisabledPhasesIdle ==
    /\ config.like_accounts = <<>>
       => /\ pc \notin {"like_fetch", "like_status"}
          /\ saving # "liked"
          /\ \A i \in StatusIds : done.favourite[i] = 0
          /\ last.op # "status_favourite"
          /\ liked_posts = loaded.liked
    /\ ~config.enable_follow_back
       => /\ pc \notin {"follow_me", "follow_fetch", "follow_next"}
          /\ saving # "followed"
          /\ \A i \in FollowerIds : done.follow[i] = 0
          /\ last.op \notin {"me", "account_followers", "account_follow"}
          /\ followed_accounts = loaded.followed

\* two cycles done with no like rules and follow_back off
C15_Witness ==
    /\ config.like_accounts = <<>>
    /\ ~config.enable_follow_back
    /\ pc = "sleep"
    /\ cycle = 2
    /\ \E i \in StatusIds : done.reblog[i] = 1

FailedActionCall ==
    /\ last' # last
    /\ last'.op \in ActionCalls
    /\ last'.res # "ok"

\* C20: a step in which a reblog, favourite or follow call fails leaves the
\* three sets and their files unchanged, consumes the entry of the listing
\* and stays in the loop over the listing, so that the remaining entries are
\* processed.
C20_FailedCallSkipsOnlyItself ==
    [][FailedActionCall
       => /\ UNCHANGED <<memVars, disk>>
          /\ pc' = pc
          /\ \/ statuses' = Tail(statuses) /\ followers' = followers
             \/ followers' = Tail(followers) /\ statuses' = statuses]_vars

InCycle ==
    pc \in {"repost_account", "repost_fetch", "repost_status", "like_start",
            "like_account", "like_fetch", "like_status", "follow_start",
            "follow_me", "follow_fetch", "follow_next", "save_open",
            "save_write"}

LoopLeft == pc \in {"fatal", "stopped"}

\* C14: every cycle terminates (it reaches the sleep unless an exception
\* escapes or the interrupt arrives), the sleep is followed by the next
\* cycle unless the interrupt arrives, the loop is left only with an escaped
\* exception or by the interrupt, and otherwise cycles start again and again.
C14_LoopRunsOn ==
    /\ InCycle ~> (pc = "sleep" \/ LoopLeft)
    /\ (pc = "sleep") ~> ((pc = "repost_account" /\ ai = 1) \/ LoopLeft)
    /\ []<>(pc = "repost_account" /\ ai = 1) \/ <>LoopLeft
    /\ [](pc = "fatal" => last.res = "transport_error")
    /\ [](pc \in {"off", "init", "aborted"} => cycle = 0)

\* the counted cycles are over and the bot sleeps before the next one
C14_Witness ==
    /\ pc = "sleep"
    /\ cycle = MaxCycles
    /\ last.op = "account_follow"
    /\ last.res = "ok"

ServedRoute(route) == w_budget' = w_budget - 1 /\ w_last'.route = route

StoredGate == store.instance_url # "" /\ store.token_valid

WatchLists(st) == <<st.accounts_to_monitor, st.likes>>

\* C16 as stated: a save-accounts request changes the watch-lists only when
\* the stored configuration has an instance URL and token_valid; otherwise
\* it is rejected and the configuration file is exactly as before.
C16_RejectedLeavesFile ==
    [][ServedRoute("save_accounts")
       => /\ WatchLists(store') # WatchLists(store) => StoredGate
          /\ ~StoredGate => ~w_last'.ok /\ store' = store]_vars

\* C16 (amended): a save-accounts request changes the watch-lists only when
\* the stored configuration has an instance URL and token_valid; otherwise
\* it is rejected and every key of the configuration is as before, the only
\* change such a request can make being to create a missing configuration
\* file as a copy of the default configuration file.
C16_GatedSave ==
    [][ServedRoute("save_accounts")
       => /\ WatchLists(store') # WatchLists(store) => StoredGate
          /\ ~StoredGate
             => /\ ~w_last'.ok
                /\ [store' EXCEPT !.exists = store.exists] = store
                /\ store'.exists = (store.exists \/ store.has_default)]_vars

\* a request with new watch-lists was rejected for want of a valid token;
\* the lists are those of the default file, which the request copied
C16_Witness ==
    /\ w_last.route = "save_accounts"
    /\ ~w_last.ok
    /\ w_last.form.has_boost
    /\ w_last.form.boost_accounts = <<"b@y", "a@x">>
    /\ store.accounts_to_monitor = <<"a@x">>
    /\ ~store.token_valid
    /\ store.exists /\ store.has_default
    /\ w_budget = MaxRequests - 1

TokenKeys(st) ==
    <<st.access_token_encrypted, st.access_token, st.token_valid>>

\* the request carries a token, the stored instance URL is set, the
\* verification request to it was answered with 200 and tokens can be
\* encrypted
TokenAccepted ==
    /\ strip(w_last'.form.access_token) # ""
    /\ store.instance_url # ""
    /\ w_last'.checked = store.instance_url
    /\ w_last'.answer = "200"
    /\ env.TOKEN_ENC_KEY

\* C17: a save-token request succeeds exactly when the token is not empty,
\* the stored instance URL is set, verify_credentials of that URL answered
\* 200 and encryption is available; then the token is stored encrypted, the
\* plain access_token is removed and token_valid is true; in every other
\* case the three token keys of the stored configuration are as before.
C17_TokenOnlyAfterValidation ==
    [][ServedRoute("save_token")
       => /\ w_last'.ok = TokenAccepted
          /\ TokenAccepted
             => /\ store'.access_token_encrypted =
                       Cipher(strip(w_last'.form.access_token))
                /\ store'.access_token = ""
                /\ store'.token_valid
                /\ store'.exists
          /\ ~TokenAccepted => TokenKeys(store') = TokenKeys(store)]_vars

\* the file that held a plain token now holds the validated token
\* encrypted and no plain token
C17_Witness ==
    /\ w_last.route = "save_token"
    /\ w_last.ok
    /\ w_last.form.access_token = " t1 "
    /\ w_last.checked = "u1"
    /\ store.access_token_encrypted = Cipher("t1")
    /\ store.access_token = ""
    /\ store.token_valid
    /\ Len(store.likes) = 3
    /\ w_budget = MaxRequests - 1

\* C18: once the bot is started, no step of the bot or of the web UI changes
\* the configuration the bot works with or the client it built.
C18_ConfigFixedAtStartup ==
    [][pc # "boot" => config' = config /\ client' = client]_vars

\* the web UI has stored new watch-lists while the bot, in its second
\* cycle, still works on the list it was started with
C18_Witness ==
    /\ w_last.route = "save_accounts"
    /\ w_last.ok
    /\ store.accounts_to_monitor = <<"b@y", "a@x">>
    /\ config.accounts_to_monitor = <<"a@x">>
    /\ cycle = 2
    /\ pc = "repost_status"
    /\ last = Called("account_statuses", "a@x", "ok", FALSE)

StoredCredential ==
    IF store.access_token_encrypted # NoCipher
    THEN store.access_token_encrypted.plain
    ELSE store.access_token

\* C19: when the bot is started, the client gets the credential and the
\* instance URL of the environment where set and those of the configuration
\* file otherwise, and the start is abandoned for want of a credential only
\* when neither the environment nor the configuration file holds one.
C19_CredentialFromEnvOrFile ==
    [][pc = "boot"
       => /\ pc' = "no_token"
             => env.MASTODON_ACCESS_TOKEN = "" /\ StoredCredential = ""
          /\ pc' = "init"
             => /\ client'.access_token =
                      IF env.MASTODON_ACCESS_TOKEN # ""
                      THEN env.MASTODON_ACCESS_TOKEN ELSE StoredCredential
                /\ env.MASTODON_INSTANCE_URL # ""
                   => client'.api_base_url = env.MASTODON_INSTANCE_URL
                /\ env.MASTODON_INSTANCE_URL = "" /\ store.instance_url # ""
                   => client'.api_base_url = store.instance_url]_vars

InLikePhase ==
    \/ pc \in {"like_account", "like_fetch", "like_status"}
    \/ pc \in {"save_open", "save_write"} /\ saving = "liked"

\* C21: once the likes of this cycle have reached the quota (at least one
\* like made), no step of the rest of the like phase issues a remote call:
\* the call issued last stays the one that was issued last.
C21_NoCallAfterQuota ==
    [][InLikePhase /\ cycleLikes >= 1
         /\ cycleLikes >= config.max_likes_per_check
       => last' = last]_vars

\* every status of the listing of a like-rule account that its rule accepts
\* is in LikedSet
AllLiked ==
    \A i \in DOMAIN config.like_accounts :
       LET like_config == config.like_accounts[i]
           listing == remote.listing[like_config.account]
       IN \A k \in DOMAIN listing :
             should_like(listing[k], like_config)
                => listing[k].id \in liked_posts

\* C22: the counter of the like phase advances only by one and only after a
\* favourite call for a status not yet liked has succeeded; and with a quota
\* of at least one, listings that stay the same and calls that succeed,
\* from some cycle on every accepted status of every like-rule account is
\* liked.
C22_LikesProgress ==
    /\ [][liked_count' # liked_count /\ liked_count' # 0
            => /\ liked_count' = liked_count + 1
               /\ last = Called("status_favourite", last.arg, "ok", FALSE)
               /\ last.arg \in liked_posts
               /\ cycleLikes = liked_count']_vars
    /\ remote.steady /\ config.max_likes_per_check >= 1 => <>[]AllLiked

\* a quota of one and a backlog of three: all three are liked, none of them
\* loaded at the start
C22_Witness ==
    /\ remote.steady
    /\ config.max_likes_per_check = 1
    /\ loaded.liked = {}
    /\ liked_posts = {"s1", "s2", "s3"}
    /\ AllLiked
    /\ pc = "sleep"

\* what a step may change of a domain: its set in memory and its file
DomainState(dom) ==
    CASE dom = "processed" -> <<processed_posts, disk.processed>>
      [] dom = "liked" -> <<liked_posts, disk.liked>>
      [] OTHER -> <<followed_accounts, disk.followed>>

PhaseDomain ==
    CASE PhaseOf = 1 -> "processed"
      [] PhaseOf = 2 -> "liked"
      [] PhaseOf = 3 -> "followed"
      [] OTHER -> "none"

\* C23: a step of the repost phase leaves LikedSet and FollowedSet and their
\* files as they are, and likewise for the other two phases; a listed
\* status that passes the repost rules and is not in ProcessedSet is
\* reblogged whether or not it is in LikedSet, and a listed status that its
\* like rule accepts and that is not in LikedSet is favourited (quota
\* permitting) whether or not it is in ProcessedSet.
C23_DomainsIndependent ==
    [][/\ \A dom \in Domains :
             PhaseOf \in 1..4 /\ dom # PhaseDomain
                => DomainState(dom)' = DomainState(dom)
       /\ pc = "repost_status" /\ statuses # <<>>
            /\ should_repost(config.flags, Head(statuses))
            /\ Head(statuses).id \notin processed_posts
          => last'.op = "status_reblog" /\ last'.arg = Head(statuses).id
       /\ pc = "like_status" /\ statuses # <<>>
            /\ liked_count < config.max_likes_per_check
            /\ should_like(Head(statuses), config.like_accounts[ai])
            /\ Head(statuses).id \notin liked_posts
          => last'.op = "status_favourite" /\ last'.arg = Head(statuses).id
      ]_vars

\* s3, liked in an earlier run, was reblogged in this one, and s1, reblogged
\* in this run, has just been liked
C23_Witness ==
    /\ "s3" \in loaded.liked
    /\ done.reblog["s3"] = 1
    /\ done.reblog["s1"] = 1
    /\ last = Called("status_favourite", "s1", "ok", FALSE)
    /\ {"s1", "s3"} \subseteq processed_posts \cap liked_posts

FollowInLoop ==
    \/ pc = "follow_next"
    \/ pc \in {"save_open", "save_write"} /\ saving = "followed"

\* FollowedSet as it was when the follower listing arrived
SeenAtFetch ==
    followed_accounts
        \ {flog.calls[k].id : k \in {j \in DOMAIN flog.calls : flog.calls[j].res = "ok"}}

\* TRUE iff `calls` are exactly the follow calls of a walk through `listing`
\* from first to last that skips the ids in `seen` and adds an id to `seen`
\* when its call succeeds
RECURSIVE FollowReplay(_, _, _)
FollowReplay(listing, seen, calls) ==
    IF listing = <<>>
    THEN calls = <<>>
    ELSE IF Head(listing) \in seen
         THEN FollowReplay(Tail(listing), seen, calls)
         ELSE /\ calls # <<>>
              /\ Head(calls).id = Head(listing)
              /\ FollowReplay(Tail(listing),
                              IF Head(calls).res = "ok"
                              THEN seen \cup {Head(listing)} ELSE seen,
                              Tail(calls))

FollowTaken == SubSeq(flog.listing, 1, Len(flog.listing) - Len(followers))

\* the order alone: the calls issued so far are those of the walk through
\* the followers taken so far
FollowCallsInOrder ==
    pc # "fatal" =>
        FollowReplay(IF FollowInLoop THEN FollowTaken ELSE flog.listing,
                     SeenAtFetch, flog.calls)

\* C24: the follow calls of a cycle are issued in the order of the follower
\* listing, skipping the followers already in FollowedSet; while the loop
\* runs they are the calls of the followers taken so far, and once the loop
\* is left they are the calls of the whole listing, a failed call included:
\* a failed follow does not keep the later followers from being processed.
C24_FollowOrder ==
    FollowReplay(IF FollowInLoop THEN FollowTaken ELSE flog.listing,
                 SeenAtFetch, flog.calls)

\* the save-instance request served in this step carries no URL
EmptyUrl == strip(w_last'.form.instance_url) = ""

\* what an accepted save-instance request does to the stored configuration
InstanceSaved ==
    /\ w_last'.ok
    /\ store'.instance_url = strip(w_last'.form.instance_url)
    /\ ~store'.token_valid
    /\ store'.exists

\* a save-accounts request that meets token_valid false is rejected
RejectedWhileInvalid ==
    ServedRoute("save_accounts") /\ ~store.token_valid
        => ~w_last'.ok /\ WatchLists(store') = WatchLists(store)

\* token_valid becomes true only by a save-token request that was validated
\* against the stored instance URL
ValidOnlyByToken ==
    ~store.token_valid /\ store'.token_valid
        => /\ w_last'.route = "save_token"
           /\ w_last'.ok
           /\ w_last'.answer = "200"
           /\ w_last'.checked = store'.instance_url
           /\ store'.instance_url = store.instance_url

\* C25 as stated: an accepted save-instance request leaves token_valid
\* false, from then on a save-accounts request is rejected until a
\* save-token request validates against the stored instance URL, and a
\* save-instance request with an empty URL changes nothing.
C25_EmptyUrlChangesNothing ==
    [][/\ ServedRoute("save_instance")
          => IF EmptyUrl THEN ~w_last'.ok /\ store' = store
             ELSE InstanceSaved
       /\ RejectedWhileInvalid
       /\ ValidOnlyByToken]_vars

\* C25 (amended): an accepted save-instance request leaves token_valid
\* false, from then on a save-accounts request is rejected until a
\* save-token request validates against the stored instance URL, and a
\* save-instance request with an empty URL is rejected and changes no key
\* of the configuration, the only change it can make being to create a
\* missing configuration file as a copy of the default configuration file.
C25_InstanceChangeInvalidates ==
    [][/\ ServedRoute("save_instance")
          => IF EmptyUrl
             THEN /\ ~w_last'.ok
                  /\ [store' EXCEPT !.exists = store.exists] = store
                  /\ store'.exists = (store.exists \/ store.has_default)
             ELSE InstanceSaved
       /\ RejectedWhileInvalid
       /\ ValidOnlyByToken]_vars

\* a token was validated and stored for u1, the instance was then changed
\* to u2, and the save-accounts request after that was rejected
C25_Witness ==
    /\ w_last.route = "save_accounts"
    /\ ~w_last.ok
    /\ w_last.form.has_like
    /\ store.instance_url = "u2"
    /\ ~store.token_valid
    /\ store.access_token_encrypted = Cipher("t1")
    /\ w_budget = 0

\* the lines of a submitted list, stripped, without the empty ones
Submitted(lines) == {strip(lines[i]) : i \in DOMAIN lines} \ {""}

FirstLine(lines, account) ==
    CHOOSE i \in DOMAIN lines :
        /\ strip(lines[i]) = account
        /\ \A k \in DOMAIN lines : strip(lines[k]) = account => i <= k

AcceptedLikeList ==
    /\ ServedRoute("save_accounts")
    /\ w_last'.ok
    /\ w_last'.form.has_like

\* C26: after an accepted save-accounts request that carries a like list,
\* the stored rules are one rule for each handle of the list, in the order
\* in which the handles first appear in the list; a handle that had a rule
\* keeps it (the last one stored for it), a handle that had none gets the
\* rule {like_everything: true}, and no rule of any other handle is left.
C26_LikeRulesPreserved ==
    [][AcceptedLikeList
       => LET lines == w_last'.form.like_accounts
              new == store'.likes
              old == store.likes
          IN /\ {new[i].account : i \in DOMAIN new} = Submitted(lines)
             /\ \A i, j \in DOMAIN new :
                   i < j => FirstLine(lines, new[i].account)
                              < FirstLine(lines, new[j].account)
             /\ \A i \in DOMAIN new :
                   LET had == {k \in DOMAIN old :
                                  old[k].account = new[i].account}
                   IN IF had = {}
                      THEN new[i] = [account |-> new[i].account,
                                     like_everything |-> TRUE,
                                     exclude_replies |-> FALSE,
                                     require_media |-> FALSE,
                                     hashtags |-> <<>>]
                      ELSE /\ \E k \in had : new[i] = old[k]
                           /\ new[i] = old[CHOOSE k \in had :
                                               \A m \in had : m <= k]]_vars

\* the list named a@x twice and c@z: a@x kept its rule, c@z got a fresh
\* one, and both rules of b@y are gone
C26_Witness ==
    /\ w_last.route = "save_accounts"
    /\ w_last.ok
    /\ w_last.form.has_like
    /\ w_last.form.like_accounts = <<" a@x ", "", "a@x", "c@z">>
    /\ store.likes = <<Rule("a@x", FALSE, FALSE, TRUE, <<>>),
                       Rule("c@z", TRUE, FALSE, FALSE, <<>>)>>
    /\ w_budget = MaxRequests - 1

\* C27: an accepted save-accounts request changes only the list it carries:
\* without a like list the stored like rules are as before, without a boost
\* list accounts_to_monitor is as before, and in every case the instance
\* URL, the stored token (encrypted or plain), token_valid and the bot
\* settings are as before.
C27_OnlyCarriedListChanges ==
    [][ServedRoute("save_accounts") /\ w_last'.ok
       => /\ ~w_last'.form.has_like => store'.likes = store.likes
          /\ ~w_last'.form.has_boost
             => store'.accounts_to_monitor = store.accounts_to_monitor
          /\ store'.instance_url = store.instance_url
          /\ TokenKeys(store') = TokenKeys(store)
          /\ store'.bot = store.bot]_vars

\* a request with only the boost list replaced accounts_to_monitor and left
\* the three stored like rules as they were
C27_Witness ==
    /\ w_last.route = "save_accounts"
    /\ w_last.ok
    /\ w_last.form.has_boost
    /\ ~w_last.form.has_like
    /\ w_last.form.boost_accounts = <<" a@x ", "", "a@x", "c@z">>
    /\ store.accounts_to_monitor = <<"a@x", "c@z">>
    /\ Len(store.likes) = 3
    /\ store.token_valid
    /\ w_budget = MaxRequests - 1

\* C28: with requests served side by side, whenever the stored
\* configuration has token_valid true it has a non-empty instance URL and an
\* encrypted token, and verify_credentials of exactly that URL answered 200
\* for exactly that token.
C28_ValidMeansVouched ==
    store.token_valid
        => /\ store.instance_url # ""
           /\ store.access_token_encrypted # NoCipher
           /\ store.access_token_encrypted.alg = "fernet"
           /\ <<store.instance_url, store.access_token_encrypted.plain>>
                 \in race.vouched

\* the save-instance request for u2 began last and has written its file,
\* and the save-token request that had loaded u1 before wrote after it:
\* the file holds u1 with the token validated against u1
C28_Witness ==
    /\ w_last.route = "save_instance"
    /\ w_last.ok
    /\ w_last.form.instance_url = "u2"
    /\ race.threads = NoRace.threads
    /\ store.token_valid
    /\ store.instance_url = "u1"
    /\ store.access_token_encrypted = Cipher("t1")

====
